---- MODULE Spec2Model ----
(***************************************************************************)
(* Acoustic fingerprint index: the songs / fingerprints store behind the   *)
(* DBClient trait (SQLite and Mongo adapters), the ingest orchestrator     *)
(* process_and_save_song, and the matcher find_matches.                    *)
(***************************************************************************)
EXTENDS Bags, FiniteSets, Integers, Sequences, TLC

(* ---------------------------------------------------------------------- *)
(* Bounds of the model                                                     *)
(* ---------------------------------------------------------------------- *)
\* song ids are random u32 values (utils::generate_unique_id); 1..MaxId stands for the u32 range
MaxId == 2
\* number of concurrently running process_and_save_song calls (each runs once)
NumWorkers == 2
\* most copies of one posting a Mongo couples array may hold in the model
MaxCopies == 2

\* longest peak sequence handed to fingerprint() on its own
MaxPeaks == 7
\* tracks of one dl_track call, and CPU cores (num_cpus::get())
NumTracks == 3
NumCpus == 2

IDs == 1..MaxId
Workers == 1..NumWorkers

\* (title, artist) of the tracks; "A---B"/"C" and "A"/"B---C" share one song key
Tracks == { << "A", "C" >>, << "A", "B---C" >>, << "A---B", "C" >> }
YtIds == {"", "y1"}
Backends == {"sqlite", "mongo"}

(* ---------------------------------------------------------------------- *)
(* Fingerprint hasher (shazam/fingerprint.rs)                              *)
(* ---------------------------------------------------------------------- *)
MAX_FREQ_BITS == 9
MAX_DELTA_BITS == 14
TARGET_ZONE_SIZE == 5

\* a peak: time in milliseconds (time * 1000.0), freq = freq.re as u32
Peak(t, f) == [time |-> t, freq |-> f]

\* peak sequences of the songs the model ingests
IngestPeaks ==
  { << Peak(0, 50) >>,
    << Peak(0, 50), Peak(100, 60), Peak(200, 70) >>,
    << Peak(100, 50), Peak(200, 60) >> }

\* peak sequences of the clips the model queries with
QueryPeaks ==
  { << >>,
    << Peak(0, 50), Peak(100, 60), Peak(200, 70) >>,
    << Peak(0, 50), Peak(100, 60), Peak(300, 50), Peak(400, 60) >> }

\* bitwise or of two naturals
RECURSIVE BitOr(_, _)
BitOr(a, b) ==
  IF a = 0 THEN b
  ELSE IF b = 0 THEN a
  ELSE (IF a % 2 = 1 \/ b % 2 = 1 THEN 1 ELSE 0) + 2 * BitOr(a \div 2, b \div 2)

\* a u32 kept as its two 16-bit halves, so that all 32 bits are represented
U32(n) == [hi |-> (n \div 65536) % 65536, lo |-> n % 65536]

\* x << n on a u32 (0 < n < 32): the bits shifted past bit 31 are lost
Shl(x, n) ==
  IF n < 16
    THEN [hi |-> ((x.hi % (2 ^ (16 - n))) * (2 ^ n)) + (x.lo \div (2 ^ (16 - n))),
          lo |-> (x.lo % (2 ^ (16 - n))) * (2 ^ n)]
    ELSE [hi |-> (x.lo % (2 ^ (32 - n))) * (2 ^ (n - 16)), lo |-> 0]

\* a | b on u32
Or(a, b) == [hi |-> BitOr(a.hi, b.hi), lo |-> BitOr(a.lo, b.lo)]

\* f64 as u32: the cast saturates, a negative value gives 0
AsU32(x) == IF x < 0 THEN U32(0) ELSE U32(x)

\* a create_address that shifts the anchor frequency by 22 (mutant of create_address)
create_address_short_shift(anchor, target) ==
  Or(Or(Shl(AsU32(anchor.freq), 22), Shl(AsU32(target.freq), 14)), AsU32(target.time - anchor.time))

create_address(anchor, target) ==
  LET anchor_freq == AsU32(anchor.freq)
      target_freq == AsU32(target.freq)
      delta_ms == AsU32(target.time - anchor.time)
  IN Or(Or(Shl(anchor_freq, 23), Shl(target_freq, 14)), delta_ms)

Min(a, b) == IF a < b THEN a ELSE b

\* a fingerprint() whose target zone is one peak too long (mutant of fingerprint_inserts)
RECURSIVE fingerprint_inserts_wide(_, _, _)
fingerprint_inserts_wide(peaks, i, j) ==
  IF i > Len(peaks) THEN << >>
  ELSE IF j > Min(i + TARGET_ZONE_SIZE + 1, Len(peaks)) THEN fingerprint_inserts_wide(peaks, i + 1, i + 2)
  ELSE << [address |-> create_address(peaks[i], peaks[j]), anchor_time_ms |-> peaks[i].time] >>
       \o fingerprint_inserts_wide(peaks, i, j + 1)

\* the (address, anchor_time_ms) insertions of fingerprint(), in generation order
RECURSIVE fingerprint_inserts(_, _, _)
fingerprint_inserts(peaks, i, j) ==
  IF i > Len(peaks) THEN << >>
  ELSE IF j > Min(i + TARGET_ZONE_SIZE, Len(peaks)) THEN fingerprint_inserts(peaks, i + 1, i + 2)
  ELSE << [address |-> create_address(peaks[i], peaks[j]), anchor_time_ms |-> peaks[i].time] >>
       \o fingerprint_inserts(peaks, i, j + 1)

\* insertions that keep the first value of a key
RECURSIVE hashmap_insert_keep_first(_, _, _)
hashmap_insert_keep_first(m, ins, song_id) ==
  IF ins = << >> THEN m
  ELSE LET e == Head(ins)
           m2 == [a \in DOMAIN m \cup {e.address} |->
                    IF a \in DOMAIN m THEN m[a]
                    ELSE [anchor_time_ms |-> e.anchor_time_ms, song_id |-> song_id]]
       IN hashmap_insert_keep_first(m2, Tail(ins), song_id)

\* HashMap::insert applied to a sequence of insertions: the last one per key stays
RECURSIVE hashmap_insert_all(_, _, _)
hashmap_insert_all(m, ins, song_id) ==
  IF ins = << >> THEN m
  ELSE LET e == Head(ins)
           m2 == [a \in DOMAIN m \cup {e.address} |->
                    IF a = e.address THEN [anchor_time_ms |-> e.anchor_time_ms, song_id |-> song_id]
                    ELSE m[a]]
       IN hashmap_insert_all(m2, Tail(ins), song_id)

EmptyMap == [a \in {} |-> 0]

\* fingerprint(peaks, song_id): address -> Couple
fingerprint(peaks, song_id) ==
  hashmap_insert_all(EmptyMap, fingerprint_inserts(peaks, 1, 2), song_id)

(* ---------------------------------------------------------------------- *)
(* Index store (db/sqlite.rs, db/mongo.rs)                                 *)
(* ---------------------------------------------------------------------- *)
VARIABLES
  dbType,        \* DB_TYPE: the adapter behind the DBClient trait
  songs,         \* songs table / collection: a set of rows
  fingerprints,  \* fingerprints table / couples arrays: a bag of rows (address, anchorTimeMs, songID)
  pc,            \* per worker: position in process_and_save_song
  job,           \* per worker: the arguments of its process_and_save_song call
  song_id,       \* per worker: the id register_song returned
  ret,           \* per worker: the result of process_and_save_song
  q_pc,          \* position of the find_matches call
  q_fingerprints,\* find_matches: address -> anchor_time_ms of the query's fingerprints
  couples_map,   \* find_matches: result of get_couples
  match_list,    \* find_matches: the returned list
  h_call,        \* hasher: the function last called ("none" before any call)
  h_peaks,       \* hasher: the peaks passed (anchor and target for create_address)
  h_song_id,     \* hasher: the song_id passed to fingerprint
  h_address,     \* hasher: the value create_address returned
  h_fingerprints,\* hasher: the map fingerprint returned
  d_main,        \* dl_track: position of the calling thread
  d_thread,      \* dl_track: per track, position of its worker thread
  d_permits,     \* dl_track: permits the semaphore has left
  d_senders,     \* dl_track: live Sender handles of the channel
  d_channel,     \* dl_track: messages sent and not yet received
  d_total,       \* dl_track: the sum received so far
  p_call,        \* DSP: the function last called ("none" before any call)
  p_in,          \* DSP: its arguments
  p_out,         \* DSP: the value it returned
  f_alpha,       \* LowPassFilter: alpha, as << numerator, denominator >> (<< 0, 1 >> before new())
  f_y_prev,      \* LowPassFilter: y_prev
  f_calls,       \* LowPassFilter: number of filter() calls on the instance
  f_in,          \* LowPassFilter: the inputs of its filter() calls, concatenated
  f_out,         \* LowPassFilter: the outputs of its filter() calls, concatenated
  audio          \* per worker: the audio file its process_and_save_song call was given

indexVars == << dbType, songs, fingerprints >>
ingestVars == << pc, job, song_id, ret >>
queryVars == << q_pc, q_fingerprints, couples_map, match_list >>
hashVars == << h_call, h_peaks, h_song_id, h_address, h_fingerprints >>
dlVars == << d_main, d_thread, d_permits, d_senders, d_channel, d_total >>
dspVars == << p_call, p_in, p_out, f_alpha, f_y_prev, f_calls, f_in, f_out, audio >>
vars == << indexVars, ingestVars, queryVars, hashVars, dlVars, dspVars >>

\* utils::generate_song_key
generate_song_key(song_title, song_artist) == song_title \o "---" \o song_artist

Row(id, title, artist, yt_id) ==
  [id |-> id, title |-> title, artist |-> artist, ytID |-> yt_id,
   key |-> generate_song_key(title, artist)]

Posting(address, couple) ==
  [address |-> address, anchorTimeMs |-> couple.anchor_time_ms, songID |-> couple.song_id]

\* the rows a fingerprints map turns into
BatchRows(fps) == { Posting(a, fps[a]) : a \in DOMAIN fps }

\* a register_song whose songs table lacks the UNIQUE constraint on key (mutant of sqlite_register_song)
sqlite_register_song_nokey(tbl, id, title, artist, yt_id) ==
  LET row == Row(id, title, artist, yt_id) IN
  IF \E s \in tbl : s.id = id
    THEN [res |-> "Storage", songs |-> tbl]
  ELSE IF \E s \in tbl : s.ytID = yt_id
    THEN [res |-> "AlreadyExists", songs |-> tbl]
  ELSE [res |-> "Ok", songs |-> tbl \cup {row}]

\* SQLiteClient::register_song: INSERT INTO songs under
\* id INTEGER PRIMARY KEY, ytID TEXT UNIQUE, key TEXT NOT NULL UNIQUE.
\* The rowid is checked before the UNIQUE indexes; only SQLITE_CONSTRAINT_UNIQUE
\* is reported as "already exists".
sqlite_register_song(tbl, id, title, artist, yt_id) ==
  LET row == Row(id, title, artist, yt_id) IN
  IF \E s \in tbl : s.id = id
    THEN [res |-> "Storage", songs |-> tbl]
  ELSE IF \E s \in tbl : s.ytID = yt_id \/ s.key = row.key
    THEN [res |-> "AlreadyExists", songs |-> tbl]
  ELSE [res |-> "Ok", songs |-> tbl \cup {row}]

\* MongoClient::register_song: unique _id and one compound unique index on (ytID, key);
\* the duplicate-key error of insert_one is not a BulkWrite error
mongo_register_song(tbl, id, title, artist, yt_id) ==
  LET row == Row(id, title, artist, yt_id) IN
  IF \E s \in tbl : s.id = id \/ (s.ytID = yt_id /\ s.key = row.key)
    THEN [res |-> "Storage", songs |-> tbl]
  ELSE [res |-> "Ok", songs |-> tbl \cup {row}]

register_song(db, tbl, id, title, artist, yt_id) ==
  IF db = "sqlite" THEN sqlite_register_song(tbl, id, title, artist, yt_id)
  ELSE mongo_register_song(tbl, id, title, artist, yt_id)

\* a fingerprints table whose primary key leaves out songID, so that INSERT OR REPLACE
\* replaces another song's row at the same address and time (mutant of sqlite_store_fingerprints)
sqlite_store_fingerprints_no_song_key(bag, rows) ==
  LET kept == { x \in DOMAIN bag :
                  ~ \E n \in rows : n.address = x.address /\ n.anchorTimeMs = x.anchorTimeMs }
  IN [r \in kept \cup rows |-> IF r \in rows THEN 1 ELSE bag[r]]

\* SQLiteClient::store_fingerprints: INSERT OR REPLACE of every row in one transaction
sqlite_store_fingerprints(bag, rows) ==
  [r \in DOMAIN bag \cup rows |-> IF r \in rows THEN 1 ELSE bag[r]]

\* MongoClient::store_fingerprints: one upsert with $push per address
mongo_store_fingerprints(bag, rows) ==
  [r \in DOMAIN bag \cup rows |-> CopiesIn(r, bag) + (IF r \in rows THEN 1 ELSE 0)]

store_fingerprints(db, bag, rows) ==
  IF db = "sqlite" THEN sqlite_store_fingerprints(bag, rows)
  ELSE mongo_store_fingerprints(bag, rows)

\* what a failing store_fingerprints may leave applied: nothing of the SQLite
\* transaction, any proper part of the Mongo upserts
PartialBatches(db, rows) ==
  IF db = "sqlite" THEN { {} } ELSE { p \in SUBSET rows : p # rows }

\* delete_song_by_id: DELETE FROM songs WHERE id = ? / delete_one on the songs collection
delete_song_by_id(tbl, id) == { s \in tbl : s.id # id }

\* total_songs
total_songs(tbl) == Cardinality(tbl)

\* the couples stored under an address, as a bag of (anchor_time_ms, song_id)
CouplesAt(bag, address) ==
  LET rs == { r \in DOMAIN bag : r.address = address } IN
  [c \in { [anchor_time_ms |-> r.anchorTimeMs, song_id |-> r.songID] : r \in rs } |->
     bag[Posting(address, c)]]

\* a lookup that returns every address of the table
sqlite_get_couples_all(bag, addresses) ==
  [a \in { r.address : r \in DOMAIN bag } |-> CouplesAt(bag, a)]

\* SQLiteClient::get_couples: one entry per requested address
sqlite_get_couples(bag, addresses) ==
  [a \in addresses |-> CouplesAt(bag, a)]

\* MongoClient::get_couples: an entry only for the addresses that have a document
mongo_get_couples(bag, addresses) ==
  [a \in { x \in addresses : \E r \in DOMAIN bag : r.address = x } |-> CouplesAt(bag, a)]

get_couples(db, bag, addresses) ==
  IF db = "sqlite" THEN sqlite_get_couples(bag, addresses)
  ELSE mongo_get_couples(bag, addresses)

\* get_song_by_id: (song, true) or (default, false)
get_song_by_id(tbl, id) ==
  IF \E s \in tbl : s.id = id
    THEN [song |-> CHOOSE s \in tbl : s.id = id, exists |-> TRUE]
    ELSE [song |-> Row(0, "", "", ""), exists |-> FALSE]


\* MongoClient::get_song rebuilds title and artist from the key: key.split("---"), parts[0], parts[1]
Atoms == {"A", "B", "C"}
KeyParts(key) ==
  LET p0 == CHOOSE p \in Atoms : \E q \in Atoms : \E rest \in {""} \cup { "---" \o r : r \in Atoms } :
                key = p \o "---" \o q \o rest
      p1 == CHOOSE q \in Atoms : \E rest \in {""} \cup { "---" \o r : r \in Atoms } :
                key = p0 \o "---" \o q \o rest
  IN << p0, p1 >>

\* the Song a get_song returns for a row
SongOf(db, row) ==
  IF db = "sqlite"
    THEN [title |-> row.title, artist |-> row.artist, youtube_id |-> row.ytID]
    ELSE [title |-> KeyParts(row.key)[1], artist |-> KeyParts(row.key)[2], youtube_id |-> row.ytID]

(* ---------------------------------------------------------------------- *)
(* Ingest orchestrator (download/downloader.rs)                            *)
(* ---------------------------------------------------------------------- *)
\* the fingerprints a worker computes once its song is registered
JobFingerprints(w) == fingerprint(job[w].peaks, song_id[w])

\* the arguments of a process_and_save_song call; the audio file is given by its peaks
Job(title, artist, yt_id, peaks) ==
  [title |-> title, artist |-> artist, yt_id |-> yt_id, peaks |-> peaks]

\* every call the model ingests with
Jobs == { Job(t[1], t[2], y, p) : t \in Tracks, y \in YtIds, p \in IngestPeaks }

\* the calls ingested while queries run
QueryJobs ==
  { Job("A", "C", "y1", << Peak(0, 50), Peak(100, 60), Peak(200, 70) >>),
    Job("A---B", "C", "", << Peak(0, 50), Peak(100, 60), Peak(200, 70) >>),
    Job("A---B", "C", "", << Peak(100, 50), Peak(200, 60) >>) }

\* process_and_save_song up to and including register_song (line 233);
\* the id is utils::generate_unique_id(), any u32
Register(w, jobs) ==
  /\ pc[w] = "idle"
  /\ \E j \in jobs, id \in IDs :
       LET r == register_song(dbType, songs, id, j.title, j.artist, j.yt_id) IN
       /\ job' = [job EXCEPT ![w] = j]
       /\ songs' = r.songs
       /\ IF r.res = "Ok"
            THEN /\ pc' = [pc EXCEPT ![w] = "registered"]
                 /\ song_id' = [song_id EXCEPT ![w] = id]
                 /\ ret' = ret
            ELSE /\ pc' = [pc EXCEPT ![w] = "failed"]
                 /\ song_id' = song_id
                 /\ ret' = [ret EXCEPT ![w] = r.res]
  /\ UNCHANGED << dbType, fingerprints, queryVars, hashVars, dlVars, dspVars >>

IngestRegister(w) == Register(w, Jobs)

IngestRegisterQ(w) == Register(w, QueryJobs)

\* extract_peaks, fingerprint and a store_fingerprints that succeeds (lines 234-243)
IngestStore(w) ==
  /\ pc[w] = "registered"
  /\ LET rows == BatchRows(JobFingerprints(w)) IN
       /\ dbType = "mongo" => \A r \in rows : CopiesIn(r, fingerprints) < MaxCopies
       /\ fingerprints' = store_fingerprints(dbType, fingerprints, rows)
  /\ pc' = [pc EXCEPT ![w] = "done"]
  /\ ret' = [ret EXCEPT ![w] = "Ok"]
  /\ UNCHANGED << dbType, songs, job, song_id, queryVars, hashVars, dlVars, dspVars >>

\* a store_fingerprints that fails (line 237): the error closure runs next
IngestStoreFails(w) ==
  /\ pc[w] = "registered"
  /\ LET rows == BatchRows(JobFingerprints(w)) IN
       \E part \in PartialBatches(dbType, rows) :
         /\ dbType = "mongo" => \A r \in part : CopiesIn(r, fingerprints) < MaxCopies
         /\ fingerprints' = store_fingerprints(dbType, fingerprints, part)
  /\ pc' = [pc EXCEPT ![w] = "compensate"]
  /\ UNCHANGED << dbType, songs, job, song_id, ret, queryVars, hashVars, dlVars, dspVars >>

\* the error closure (lines 238-240): let _ = delete_song_by_id(song_id); the
\* delete may fail as well and its result is dropped
IngestCompensate(w) ==
  /\ pc[w] = "compensate"
  /\ \/ songs' = delete_song_by_id(songs, song_id[w])
     \/ songs' = songs
  /\ pc' = [pc EXCEPT ![w] = "failed"]
  /\ ret' = [ret EXCEPT ![w] = "Storage"]
  /\ UNCHANGED << dbType, fingerprints, job, song_id, queryVars, hashVars, dlVars, dspVars >>

\* a direct DBClient::delete_song_by_id call that returns Ok
DeleteSong(id) ==
  /\ songs' = delete_song_by_id(songs, id)
  /\ UNCHANGED << dbType, fingerprints, ingestVars, queryVars, hashVars, dlVars, dspVars >>


(* ---------------------------------------------------------------------- *)
(* Matcher and scorer (shazam/shazam.rs)                                   *)
(* ---------------------------------------------------------------------- *)
Abs(x) == IF x < 0 THEN -x ELSE x

\* some enumeration of a finite set (a HashMap or row iteration order)
RECURSIVE SetToSeq(_)
SetToSeq(S) ==
  IF S = {} THEN << >>
  ELSE LET x == CHOOSE y \in S : TRUE IN << x >> \o SetToSeq(S \ {x})

\* every (address, couple, copy) the loops of lines 70-86 visit
Visits(fps, cmap) ==
  { v \in UNION { { [address |-> a, couple |-> c, copy |-> n] : c \in DOMAIN cmap[a], n \in 1..MaxCopies }
                  : a \in DOMAIN cmap } :
      v.copy <= cmap[v.address][v.couple] }

\* matches_map: song_id -> list of [sample_time, db_time] (lines 66-86);
\* a missing query fingerprint gives sample time 0 (unwrap_or(0))
matches_map(fps, cmap) ==
  LET vs == Visits(fps, cmap)
      ids == { v.couple.song_id : v \in vs }
      pair(v) == << IF v.address \in DOMAIN fps THEN fps[v.address] ELSE 0,
                    v.couple.anchor_time_ms >>
      list(id) == LET order == SetToSeq({ v \in vs : v.couple.song_id = id })
                  IN [k \in 1..Len(order) |-> pair(order[k])]
  IN [id \in ids |-> list(id)]

\* timestamps: song_id -> the db anchor times pushed for it (lines 67, 82-84)
timestamps(fps, cmap) ==
  LET m == matches_map(fps, cmap)
  IN [id \in DOMAIN m |-> [k \in 1..Len(m[id]) |-> m[id][k][2]]]

\* an analyze_relative_timing whose tolerance test is <= 100.0 (mutant of count_pairs)
RECURSIVE count_pairs_inclusive(_, _, _)
count_pairs_inclusive(times, i, j) ==
  IF i > Len(times) THEN 0
  ELSE IF j > Len(times) THEN count_pairs_inclusive(times, i + 1, i + 2)
  ELSE LET sample_diff == Abs(times[i][1] - times[j][1])
           db_diff == Abs(times[i][2] - times[j][2])
       IN (IF Abs(sample_diff - db_diff) <= 100 THEN 1 ELSE 0) + count_pairs_inclusive(times, i, j + 1)

\* the inner loops of analyze_relative_timing over one song's list
RECURSIVE count_pairs(_, _, _)
count_pairs(times, i, j) ==
  IF i > Len(times) THEN 0
  ELSE IF j > Len(times) THEN count_pairs(times, i + 1, i + 2)
  ELSE LET sample_diff == Abs(times[i][1] - times[j][1])
           db_diff == Abs(times[i][2] - times[j][2])
       IN (IF Abs(sample_diff - db_diff) < 100 THEN 1 ELSE 0) + count_pairs(times, i, j + 1)

analyze_relative_timing(matches) ==
  [id \in DOMAIN matches |-> count_pairs(matches[id], 1, 2)]

\* a lookup that takes ts.last() of the sorted timestamps (mutant of SeqMin)
RECURSIVE SeqMax(_)
SeqMax(ts) ==
  IF Len(ts) = 1 THEN ts[1]
  ELSE LET r == SeqMax(Tail(ts)) IN IF ts[1] > r THEN ts[1] ELSE r

\* ts.sort_unstable(); ts.first()
RECURSIVE SeqMin(_)
SeqMin(ts) ==
  IF Len(ts) = 1 THEN ts[1] ELSE Min(ts[1], SeqMin(Tail(ts)))

\* a find_matches that returns the list unsorted (mutant of sort_by_score)
sort_by_score_missing(list) == list

\* Vec::sort_by(|a, b| b.score.partial_cmp(&a.score)): stable, descending by score
RECURSIVE insert_by_score(_, _)
insert_by_score(sorted, m) ==
  IF sorted = << >> THEN << m >>
  ELSE IF Head(sorted).score >= m.score THEN << Head(sorted) >> \o insert_by_score(Tail(sorted), m)
  ELSE << m >> \o sorted

RECURSIVE sort_by_score(_)
sort_by_score(list) ==
  IF list = << >> THEN << >>
  ELSE insert_by_score(sort_by_score(SubSeq(list, 1, Len(list) - 1)), list[Len(list)])

\* a lookup loop without the `continue` for an absent song (mutant of lookup_matches)
RECURSIVE lookup_matches_keep_absent(_, _, _, _, _)
lookup_matches_keep_absent(db, tbl, order, scores, tss) ==
  IF order = << >> THEN << >>
  ELSE LET id == Head(order)
           got == get_song_by_id(tbl, id)
       IN << [song_id |-> id,
              song_title |-> SongOf(db, got.song).title,
              song_artist |-> SongOf(db, got.song).artist,
              youtube_id |-> SongOf(db, got.song).youtube_id,
              timestamp |-> IF id \in DOMAIN tss /\ Len(tss[id]) > 0 THEN SeqMin(tss[id]) ELSE 0,
              score |-> scores[id]] >>
          \o lookup_matches_keep_absent(db, tbl, Tail(order), scores, tss)

\* lines 95-119: the loop over scores in the order `order`, skipping absent songs
RECURSIVE lookup_matches(_, _, _, _, _)
lookup_matches(db, tbl, order, scores, tss) ==
  IF order = << >> THEN << >>
  ELSE LET id == Head(order)
           got == get_song_by_id(tbl, id)
           rest == lookup_matches(db, tbl, Tail(order), scores, tss)
       IN IF ~got.exists THEN rest
          ELSE << [song_id |-> id,
                   song_title |-> SongOf(db, got.song).title,
                   song_artist |-> SongOf(db, got.song).artist,
                   youtube_id |-> SongOf(db, got.song).youtube_id,
                   timestamp |-> IF id \in DOMAIN tss /\ Len(tss[id]) > 0 THEN SeqMin(tss[id]) ELSE 0,
                   score |-> scores[id]] >> \o rest

\* the orders a HashMap over the set S may be iterated in
Orders(S) == { o \in [1..Cardinality(S) -> S] : \A i, j \in 1..Cardinality(S) : i # j => o[i] # o[j] }

\* what find_matches reads of the query's fingerprints: address -> anchor_time_ms (line 76)
AnchorTimes(fps) == [a \in DOMAIN fps |-> fps[a].anchor_time_ms]

\* find_matches up to get_couples (lines 48-63)
QueryGetCouples ==
  /\ q_pc \in {"idle", "done"}
  /\ \E peaks \in QueryPeaks, id \in IDs :
       /\ q_fingerprints' = AnchorTimes(fingerprint(peaks, id))
       /\ couples_map' = get_couples(dbType, fingerprints, DOMAIN q_fingerprints')
  /\ q_pc' = "lookup"
  /\ match_list' = << >>
  /\ UNCHANGED << dbType, songs, fingerprints, ingestVars, hashVars, dlVars, dspVars >>

\* find_matches from the scoring to the sorted list (lines 66-125)
QueryLookup ==
  /\ q_pc = "lookup"
  /\ LET scores == analyze_relative_timing(matches_map(q_fingerprints, couples_map))
         tss == timestamps(q_fingerprints, couples_map)
     IN \E order \in Orders(DOMAIN scores) :
          match_list' = sort_by_score(lookup_matches(dbType, songs, order, scores, tss))
  /\ q_pc' = "done"
  /\ UNCHANGED << dbType, songs, fingerprints, ingestVars, q_fingerprints, couples_map, hashVars, dlVars, dspVars >>

(* ---------------------------------------------------------------------- *)
(* The hasher called on its own (shazam/fingerprint.rs)                    *)
(* ---------------------------------------------------------------------- *)
\* peaks handed to create_address: frequencies around the 9-bit limit, times
\* (in ms) around the 14-bit limit
AddrFreqs == {0, 100, 200, 511, 512, 1023}
AddrTimes == {0, 50, 16383, 16384, 16434}
AddrPeaks == { Peak(t, f) : t \in AddrTimes, f \in AddrFreqs }

\* peak sequences handed to fingerprint(): n peaks, `step` ms apart, frequencies
\* all equal (k = 0) or changing from peak to peak
PeakList(n, step, k) == [i \in 1..n |-> Peak((i - 1) * step, 50 + (((i - 1) * k) % 8))]
HashPeaks == { PeakList(n, step, k) : n \in 0..MaxPeaks, step \in {0, 100}, k \in {0, 1, 3} }

\* one call of create_address
CreateAddress ==
  /\ \E anchor \in AddrPeaks, target \in AddrPeaks :
       /\ h_peaks' = << anchor, target >>
       /\ h_address' = create_address(anchor, target)
  /\ h_call' = "create_address"
  /\ h_song_id' = 0
  /\ h_fingerprints' = EmptyMap
  /\ UNCHANGED << indexVars, ingestVars, queryVars, dlVars, dspVars >>

\* one call of fingerprint
Fingerprint ==
  /\ \E peaks \in HashPeaks, sid \in IDs :
       /\ h_peaks' = peaks
       /\ h_song_id' = sid
       /\ h_fingerprints' = fingerprint(peaks, sid)
  /\ h_call' = "fingerprint"
  /\ h_address' = U32(0)
  /\ UNCHANGED << indexVars, ingestVars, queryVars, dlVars, dspVars >>

(* ---------------------------------------------------------------------- *)
(* Parallel ingest of a track list (download/downloader.rs, dl_track)      *)
(* ---------------------------------------------------------------------- *)
DlTracks == 1..NumTracks

\* dl_track is called: Semaphore::new(num_cpus), mpsc::channel() (lines 47-58)
DlCall ==
  /\ d_main = "idle"
  /\ d_main' = "spawn"
  /\ d_thread' = [t \in DlTracks |-> "unspawned"]
  /\ d_permits' = NumCpus
  /\ d_senders' = 1
  /\ d_channel' = 0
  /\ d_total' = 0
  /\ UNCHANGED << indexVars, ingestVars, queryVars, hashVars, dspVars >>

\* one turn of the for loop: tx.clone() and thread::spawn (lines 60-68, 148)
DlSpawn ==
  /\ d_main = "spawn"
  /\ \E t \in DlTracks :
       /\ d_thread[t] = "unspawned"
       /\ \A u \in DlTracks : u < t => d_thread[u] # "unspawned"
       /\ d_thread' = [d_thread EXCEPT ![t] = "acquire"]
  /\ d_senders' = d_senders + 1
  /\ UNCHANGED << d_main, d_permits, d_channel, d_total >>
  /\ UNCHANGED << indexVars, ingestVars, queryVars, hashVars, dspVars >>

\* the for loop ends
DlSpawnDone ==
  /\ d_main = "spawn"
  /\ \A t \in DlTracks : d_thread[t] # "unspawned"
  /\ d_main' = "join"
  /\ UNCHANGED << d_thread, d_permits, d_senders, d_channel, d_total >>
  /\ UNCHANGED << indexVars, ingestVars, queryVars, hashVars, dspVars >>

\* let _permit = sem.acquire() (line 70): tokio's acquire() is an async fn, the
\* thread keeps its future without polling it, so no permit is taken and the
\* thread goes on at once
DlAcquire(t) ==
  /\ d_thread[t] = "acquire"
  /\ d_thread' = [d_thread EXCEPT ![t] = "working"]
  /\ UNCHANGED << d_main, d_permits, d_senders, d_channel, d_total >>
  /\ UNCHANGED << indexVars, ingestVars, queryVars, hashVars, dspVars >>

\* the thread returns early on an error (lines 83-138): its Sender is dropped
DlFail(t) ==
  /\ d_thread[t] = "working"
  /\ d_thread' = [d_thread EXCEPT ![t] = "exited"]
  /\ d_senders' = d_senders - 1
  /\ UNCHANGED << d_main, d_permits, d_channel, d_total >>
  /\ UNCHANGED << indexVars, ingestVars, queryVars, hashVars, dspVars >>

\* the thread completes every step and sends 1 (lines 145-147)
DlSucceed(t) ==
  /\ d_thread[t] = "working"
  /\ d_thread' = [d_thread EXCEPT ![t] = "exited"]
  /\ d_channel' = d_channel + 1
  /\ d_senders' = d_senders - 1
  /\ UNCHANGED << d_main, d_permits, d_total >>
  /\ UNCHANGED << indexVars, ingestVars, queryVars, hashVars, dspVars >>

\* every handle.join() has returned (lines 152-154)
DlJoin ==
  /\ d_main = "join"
  /\ \A t \in DlTracks : d_thread[t] = "exited"
  /\ d_main' = "sum"
  /\ UNCHANGED << d_thread, d_permits, d_senders, d_channel, d_total >>
  /\ UNCHANGED << indexVars, ingestVars, queryVars, hashVars, dspVars >>

\* one turn of rx.iter().sum() (line 157): the iterator takes a message when the
\* channel holds one; when the channel is empty it ends, and dl_track returns the
\* sum (lines 158-159), only once every Sender has been dropped; otherwise it blocks.
\* The Sender `tx` of line 51 is a local of dl_track that lives to the function's
\* end: the threads drop only their clones
DlReceive ==
  /\ d_main = "sum"
  /\ IF d_channel > 0
       THEN /\ d_channel' = d_channel - 1
            /\ d_total' = d_total + 1
            /\ d_main' = d_main
       ELSE /\ d_senders = 0
            /\ d_main' = "returned"
            /\ UNCHANGED << d_channel, d_total >>
  /\ UNCHANGED << d_thread, d_permits, d_senders >>
  /\ UNCHANGED << indexVars, ingestVars, queryVars, hashVars, dspVars >>

(* ---------------------------------------------------------------------- *)
(* Signal processing (shazam/spectrogram.rs, shazam/filter.rs)             *)
(* ---------------------------------------------------------------------- *)
DSP_RATIO == 4
FREQ_BIN_SIZE == 1024
HOP_SIZE == FREQ_BIN_SIZE \div 32

MaxSamples == 3
MaxWindows == 2
MaxAudioLen == 8200
MaxCalls == 2

RECURSIVE SeqSum(_)
SeqSum(s) == IF s = << >> THEN 0 ELSE Head(s) + SeqSum(Tail(s))

\* the result of a DSP function: Ok(out) or Err(err)
DspOk(out) == [ok |-> TRUE, err |-> "", out |-> out]
DspErr(msg) == [ok |-> FALSE, err |-> msg, out |-> << >>]

\* a chunk's mean with the divisor fixed to the ratio
downsample_avg_fixed_divisor(sum, count, ratio) == [sum |-> sum, n |-> ratio]

\* avg = sum / (end - i): the mean is kept as the exact fraction sum / n
downsample_avg(sum, count, ratio) == [sum |-> sum, n |-> count]

\* the while loop of downsample: one output for each i = 0, ratio, 2 * ratio, ...
\* below len, the mean of input[i..end]
downsample_chunks(input, ratio) ==
  LET len == Len(input)
      starts == { i \in 0..(len - 1) : i % ratio = 0 }
  IN  [k \in 1..Cardinality(starts) |->
         LET i == (k - 1) * ratio
             end == IF i + ratio > len THEN len ELSE i + ratio
         IN  downsample_avg(SeqSum(SubSeq(input, i + 1, end)), end - i, ratio)]

\* the checks downsample makes on its rates, then its ratio
downsample_ratio(original_sample_rate, target_sample_rate) ==
  IF target_sample_rate <= 0 \/ original_sample_rate <= 0
    THEN DspErr("sample rates must be positive")
  ELSE IF target_sample_rate > original_sample_rate
    THEN DspErr("target sample rate must be less than or equal to original sample rate")
  ELSE IF original_sample_rate \div target_sample_rate <= 0
    THEN DspErr("invalid ratio calculated from sample rates")
  ELSE DspOk(original_sample_rate \div target_sample_rate)

downsample(input, original_sample_rate, target_sample_rate) ==
  LET ratio == downsample_ratio(original_sample_rate, target_sample_rate)
  IN  IF ratio.ok THEN DspOk(downsample_chunks(input, ratio.out)) ELSE ratio

\* the number of samples downsample returns for len input samples: one per turn
\* of its loop, which advances i by ratio while i < len
downsample_len(len, original_sample_rate, target_sample_rate) ==
  LET ratio == downsample_ratio(original_sample_rate, target_sample_rate)
  IN  IF ratio.ok THEN DspOk((len + ratio.out - 1) \div ratio.out) ELSE ratio

\* windows laid end to end, without overlap
window_start_no_overlap(i, hop) == i * FREQ_BIN_SIZE

\* let start = i * hop
window_start(i, hop) == i * hop

\* the windows spectrogram cuts out of len_down downsampled samples: each is the
\* slice [start, end) copied into a zeroed bin of FREQ_BIN_SIZE samples; a slice
\* whose start lies past its end panics
spectrogram_windows(len_down) ==
  LET window_length == FREQ_BIN_SIZE
      hop == HOP_SIZE
      num_of_windows == len_down \div (window_length - hop)
      window(i) == LET start == window_start(i, hop)
                       end == Min(start + window_length, len_down)
                   IN  [start |-> start, end |-> end, bin_len |-> window_length,
                        pad |-> window_length - (end - start)]
      windows == [k \in 1..num_of_windows |-> window(k - 1)]
  IN  IF \E k \in 1..num_of_windows : windows[k].start > windows[k].end
        THEN [ok |-> FALSE, err |-> "panic", out |-> << >>]
        ELSE DspOk(windows)

\* spectrogram on num_samples input samples (the filter keeps their number)
spectrogram(num_samples, sample_rate) ==
  LET target_sample_rate == sample_rate \div DSP_RATIO
      downsampled == downsample_len(num_samples, sample_rate, target_sample_rate)
  IN  IF downsampled.ok THEN spectrogram_windows(downsampled.out)
      ELSE DspErr("couldn't downsample audio samples")

\* the logarithmic bands of extract_peaks, [min, max)
Bands == << << 0, 10 >>, << 10, 20 >>, << 20, 40 >>, << 40, 80 >>, << 80, 160 >>, << 160, 512 >> >>

\* a window of the spectrogram is written as the function from the indices of its
\* non-zero bins to their (real) values; every other bin of its FREQ_BIN_SIZE bins is 0
Mag(bin, idx) == IF idx \in DOMAIN bin THEN Abs(bin[idx]) ELSE 0

\* the scan of one band: the first bin of the largest magnitude above 0.0, or
\* the initial Maxies entry when every bin of the band is 0
band_max(bin, band) ==
  LET min == band[1]
      max == band[2]
      idxs == { i \in DOMAIN bin : min <= i /\ i < max /\ Abs(bin[i]) > 0 }
  IN  IF idxs = {} THEN [max_mag |-> 0, max_freq |-> 0, freq_idx |-> min]
      ELSE LET m == CHOOSE i \in idxs :
                      \A j \in idxs : \/ Abs(bin[j]) < Abs(bin[i])
                                      \/ Abs(bin[j]) = Abs(bin[i]) /\ i <= j
           IN  [max_mag |-> Abs(bin[m]), max_freq |-> bin[m], freq_idx |-> m]

\* a peak time without the division by the window's length
peak_time_undivided(bin_idx, freq_idx) == bin_idx * FREQ_BIN_SIZE + freq_idx * FREQ_BIN_SIZE

\* peak_time = bin_idx * bin_duration + freq_idx * bin_duration / bin.len(), counted
\* in units of bin_duration / bin.len()
peak_time(bin_idx, freq_idx) == bin_idx * FREQ_BIN_SIZE + freq_idx

\* a band's maximum compared with the average, equality included
above_avg_inclusive(max_mag, sum, count) == count * max_mag >= sum

\* max_mags[i] > avg, where avg = sum / count
above_avg(max_mag, sum, count) == count * max_mag > sum

\* the peaks of one window, band by band
RECURSIVE band_peaks(_, _, _, _)
band_peaks(maxies, sum, bin_idx, i) ==
  IF i > Len(maxies) THEN << >>
  ELSE (IF above_avg(maxies[i].max_mag, sum, Len(maxies))
          THEN << Peak(peak_time(bin_idx, maxies[i].freq_idx), maxies[i].max_freq) >>
          ELSE << >>)
       \o band_peaks(maxies, sum, bin_idx, i + 1)

\* window after window, from bin_idx on
RECURSIVE window_peaks(_, _)
window_peaks(spectro, bin_idx) ==
  IF bin_idx >= Len(spectro) THEN << >>
  ELSE LET maxies == [b \in 1..Len(Bands) |-> band_max(spectro[bin_idx + 1], Bands[b])]
           sum == SeqSum([b \in 1..Len(Bands) |-> maxies[b].max_mag])
       IN  band_peaks(maxies, sum, bin_idx, 1) \o window_peaks(spectro, bin_idx + 1)

extract_peaks(spectro) == IF spectro = << >> THEN << >> ELSE window_peaks(spectro, 0)

\* LowPassFilter::new: alpha = dt / (rc + dt) lies strictly between 0 and 1; it is
\* kept as the fraction alpha[1] / alpha[2], and a sample as the fraction num / den
Alphas == { << 1, 2 >>, << 1, 4 >>, << 3, 4 >> }
Rat(n, d) == [num |-> n, den |-> d]
RatEq(a, b) == a.num * b.den = b.num * a.den

\* one turn of filter's loop on sample x at index i (1-based) of the call's input
filter_sample(alpha, y_prev, x, i) ==
  IF i = 1 THEN Rat(x * alpha[1], alpha[2])
  ELSE Rat(alpha[1] * x * y_prev.den + (alpha[2] - alpha[1]) * y_prev.num,
           alpha[2] * y_prev.den)

\* filter: the outputs and the y_prev it leaves
RECURSIVE filter(_, _, _, _)
filter(alpha, y_prev, input, i) ==
  IF i > Len(input) THEN [out |-> << >>, y_prev |-> y_prev]
  ELSE LET y == filter_sample(alpha, y_prev, input[i], i)
           rest == filter(alpha, y, input, i + 1)
       IN  [out |-> << y >> \o rest.out, y_prev |-> rest.y_prev]

\* the inputs of the DSP functions
RECURSIVE SeqsUpTo(_, _)
SeqsUpTo(S, n) ==
  IF n = 0 THEN { << >> }
  ELSE LET shorter == SeqsUpTo(S, n - 1)
       IN  shorter \cup { Append(s, x) : s \in { t \in shorter : Len(t) = n - 1 }, x \in S }

Ramp == [i \in 1..100 |-> i - 1]
SampleSeqs == SeqsUpTo({0, 1, 3}, MaxSamples) \cup { Ramp }
RatePairs == { << 100, 25 >>, << 4, 4 >>, << 4, 2 >>, << 3, 2 >>, << 5, 2 >>,
               << 2, 4 >>, << 0, 1 >>, << 4, 0 >> }
SampleRates == { 0, 3, 4, 7, 44100 }
PeakBins == { 0, 9, 10, 511, 600 }
PeakValues == { -2, 1 }
AllBandsEqual == [i \in { 5, 15, 25, 45, 100, 300 } |-> 2]
FiveBands == [i \in { 5, 15, 25, 45, 100 } |-> 2]
WindowSet ==
  { [i \in {} |-> 0], AllBandsEqual, FiveBands }
    \cup { [i \in { a } |-> v] : a \in PeakBins, v \in PeakValues }
    \cup UNION { [{ a, b } -> PeakValues] : a \in PeakBins, b \in PeakBins }
Spectrograms == SeqsUpTo(WindowSet, MaxWindows)

\* one call of downsample
Downsample ==
  /\ p_call = "none"
  /\ \E input \in SampleSeqs, rates \in RatePairs :
       /\ p_in' = [input |-> input, original_sample_rate |-> rates[1],
                   target_sample_rate |-> rates[2]]
       /\ p_out' = downsample(input, rates[1], rates[2])
  /\ p_call' = "downsample"
  /\ UNCHANGED << f_alpha, f_y_prev, f_calls, f_in, f_out, audio >>
  /\ UNCHANGED << indexVars, ingestVars, queryVars, hashVars, dlVars >>

\* one call of spectrogram
Spectrogram ==
  /\ p_call = "none"
  /\ \E n \in 0..MaxAudioLen, rate \in SampleRates :
       /\ p_in' = [num_samples |-> n, sample_rate |-> rate]
       /\ p_out' = spectrogram(n, rate)
  /\ p_call' = "spectrogram"
  /\ UNCHANGED << f_alpha, f_y_prev, f_calls, f_in, f_out, audio >>
  /\ UNCHANGED << indexVars, ingestVars, queryVars, hashVars, dlVars >>

\* one call of extract_peaks
ExtractPeaks ==
  /\ p_call = "none"
  /\ \E spectro \in Spectrograms :
       /\ p_in' = [spectrogram |-> spectro]
       /\ p_out' = DspOk(extract_peaks(spectro))
  /\ p_call' = "extract_peaks"
  /\ UNCHANGED << f_alpha, f_y_prev, f_calls, f_in, f_out, audio >>
  /\ UNCHANGED << indexVars, ingestVars, queryVars, hashVars, dlVars >>

\* LowPassFilter::new
FilterNew ==
  /\ f_alpha = << 0, 1 >>
  /\ f_alpha' \in Alphas
  /\ f_y_prev' = Rat(0, 1)
  /\ UNCHANGED << f_calls, f_in, f_out, p_call, p_in, p_out, audio >>
  /\ UNCHANGED << indexVars, ingestVars, queryVars, hashVars, dlVars >>

\* one call of filter on the instance
FilterCall ==
  /\ f_alpha \in Alphas
  /\ f_calls < MaxCalls
  /\ \E input \in SeqsUpTo({0, 1}, MaxSamples - 1) :
       LET r == filter(f_alpha, f_y_prev, input, 1)
       IN  /\ f_in' = f_in \o input
           /\ f_out' = f_out \o r.out
           /\ f_y_prev' = r.y_prev
  /\ f_calls' = f_calls + 1
  /\ UNCHANGED << f_alpha, p_call, p_in, p_out, audio >>
  /\ UNCHANGED << indexVars, ingestVars, queryVars, hashVars, dlVars >>

\* the audio files handed to process_and_save_song: their number of samples and
\* their sample rate
Audios == [num_samples : {0, 3964, 3965, 8000}, sample_rate : {3, 4, 44100}]

\* the peaks extract_peaks can return for a spectrogram of the given number of
\* windows: none without a window, otherwise whatever the samples hold
PeaksOfAudio(num_windows) == IF num_windows = 0 THEN { << >> } ELSE IngestPeaks \cup { << >> }

\* process_and_save_song from the spectrogram up to and including register_song
\* (lines 229-233): spectrogram's error returns before anything is registered
IngestRegisterAudio(w) ==
  /\ pc[w] = "idle"
  /\ \E a \in Audios, t \in Tracks, id \in IDs :
       LET spectro == spectrogram(a.num_samples, a.sample_rate) IN
       /\ audio' = [audio EXCEPT ![w] = a]
       /\ IF ~spectro.ok
            THEN /\ job' = [job EXCEPT ![w] = Job(t[1], t[2], "", << >>)]
                 /\ pc' = [pc EXCEPT ![w] = "failed"]
                 /\ ret' = [ret EXCEPT ![w] = "Dsp"]
                 /\ UNCHANGED << songs, song_id >>
            ELSE \E peaks \in PeaksOfAudio(Len(spectro.out)) :
                   LET r == register_song(dbType, songs, id, t[1], t[2], "") IN
                   /\ job' = [job EXCEPT ![w] = Job(t[1], t[2], "", peaks)]
                   /\ songs' = r.songs
                   /\ IF r.res = "Ok"
                        THEN /\ pc' = [pc EXCEPT ![w] = "registered"]
                             /\ song_id' = [song_id EXCEPT ![w] = id]
                             /\ ret' = ret
                        ELSE /\ pc' = [pc EXCEPT ![w] = "failed"]
                             /\ song_id' = song_id
                             /\ ret' = [ret EXCEPT ![w] = r.res]
  /\ UNCHANGED << p_call, p_in, p_out, f_alpha, f_y_prev, f_calls, f_in, f_out >>
  /\ UNCHANGED << dbType, fingerprints, queryVars, hashVars, dlVars >>

(* ---------------------------------------------------------------------- *)
(* Specifications                                                          *)
(* ---------------------------------------------------------------------- *)
InitState ==
  /\ songs = {}
  /\ fingerprints = EmptyBag
  /\ pc = [w \in Workers |-> "idle"]
  /\ job = [w \in Workers |-> Job("", "", "", << >>)]
  /\ song_id = [w \in Workers |-> 0]
  /\ ret = [w \in Workers |-> "none"]
  /\ q_pc = "idle"
  /\ q_fingerprints = EmptyMap
  /\ couples_map = EmptyMap
  /\ match_list = << >>
  /\ h_call = "none"
  /\ h_peaks = << >>
  /\ h_song_id = 0
  /\ h_address = U32(0)
  /\ h_fingerprints = EmptyMap
  /\ d_main = "idle"
  /\ d_thread = [t \in DlTracks |-> "unspawned"]
  /\ d_permits = 0
  /\ d_senders = 0
  /\ d_channel = 0
  /\ d_total = 0
  /\ p_call = "none"
  /\ p_in = << >>
  /\ p_out = DspOk(<< >>)
  /\ f_alpha = << 0, 1 >>
  /\ f_y_prev = Rat(0, 1)
  /\ f_calls = 0
  /\ f_in = << >>
  /\ f_out = << >>
  /\ audio = [w \in Workers |-> [num_samples |-> 0, sample_rate |-> 0]]

\* the default build: DB_TYPE = sqlite
Init == dbType = "sqlite" /\ InitState

\* either adapter behind the DBClient trait
InitBackends == dbType \in Backends /\ InitState

\* ingests and direct deletes
Next ==
  \/ \E w \in Workers : IngestRegister(w)
  \/ \E w \in Workers : IngestStore(w)
  \/ \E w \in Workers : IngestStoreFails(w)
  \/ \E w \in Workers : IngestCompensate(w)
  \/ \E id \in IDs : DeleteSong(id)

\* queries running beside ingests and direct deletes
NextQuery ==
  \/ \E w \in Workers : IngestRegisterQ(w)
  \/ \E w \in Workers : IngestStore(w)
  \/ \E w \in Workers : IngestStoreFails(w)
  \/ \E w \in Workers : IngestCompensate(w)
  \/ \E id \in IDs : DeleteSong(id)
  \/ QueryGetCouples
  \/ QueryLookup

\* ingests alone
NextIngest ==
  \/ \E w \in Workers : IngestRegister(w)
  \/ \E w \in Workers : IngestStore(w)
  \/ \E w \in Workers : IngestStoreFails(w)
  \/ \E w \in Workers : IngestCompensate(w)

\* calls of the hasher
NextHasher ==
  \/ CreateAddress
  \/ Fingerprint

\* one dl_track call
NextDownload ==
  \/ DlCall
  \/ DlSpawn
  \/ DlSpawnDone
  \/ \E t \in DlTracks : DlAcquire(t)
  \/ \E t \in DlTracks : DlFail(t)
  \/ \E t \in DlTracks : DlSucceed(t)
  \/ DlJoin
  \/ DlReceive

\* one call of a DSP function
NextDsp ==
  \/ Downsample
  \/ Spectrogram
  \/ ExtractPeaks

\* one LowPassFilter instance
NextFilter ==
  \/ FilterNew
  \/ FilterCall

\* ingests of audio files
NextAudio ==
  \/ \E w \in Workers : IngestRegisterAudio(w)
  \/ \E w \in Workers : IngestStore(w)
  \/ \E w \in Workers : IngestStoreFails(w)
  \/ \E w \in Workers : IngestCompensate(w)

Spec == Init /\ [][Next]_vars

\* dl_track on threads the operating system schedules: a step that can be taken
\* is taken in the end
SpecDownloadFair == Init /\ [][NextDownload]_vars /\ WF_vars(NextDownload)

SpecAudio == Init /\ [][NextAudio]_vars

SpecDsp == Init /\ [][NextDsp]_vars

SpecFilter == Init /\ [][NextFilter]_vars

SpecIngest == Init /\ [][NextIngest]_vars

SpecHasher == Init /\ [][NextHasher]_vars

SpecDownload == Init /\ [][NextDownload]_vars

SpecBackends == InitBackends /\ [][Next]_vars

SpecQuery == Init /\ [][NextQuery]_vars

SpecQueryBackends == InitBackends /\ [][NextQuery]_vars


(* ---------------------------------------------------------------------- *)
(* Claims                                                                  *)
(* ---------------------------------------------------------------------- *)
HasRow(tbl, id) == \E s \in tbl : s.id = id

\* the song ids some get_couples call can return from a table
ReturnedIds(db, bag) ==
  { c.song_id : c \in UNION { DOMAIN get_couples(db, bag, {r.address})[r.address] : r \in DOMAIN bag } }

\* worker w takes its register_song step
Registers(w) == pc[w] = "idle" /\ pc'[w] # "idle"

\* C1: once delete_song_by_id has removed a song, get_couples returns no posting
\* that carries its song_id (the delete cascades to the postings).
C1_DeleteCascades ==
  [][\A id \in IDs :
       (HasRow(songs, id) /\ ~HasRow(songs', id)) => id \notin ReturnedIds(dbType, fingerprints')]_vars

\* C2: an ingest never leaves, and no concurrent query can see, its song row
\* without all of its fingerprints: either no row or the row with every posting.
C2_RowNeverWithoutFingerprints ==
  \A w \in Workers :
    (song_id[w] \in IDs /\ Row(song_id[w], job[w].title, job[w].artist, job[w].yt_id) \in songs)
      => BatchRows(JobFingerprints(w)) \subseteq DOMAIN fingerprints

\* C3: when process_and_save_song returns after a failed store_fingerprints, it
\* returns the storage error, its song row is gone and no posting carries its song_id.
C3_FailedStoreIsCompensated ==
  [][\A w \in Workers :
       (pc[w] = "compensate" /\ pc'[w] = "failed")
         => /\ ret'[w] = "Storage"
            /\ ~HasRow(songs', song_id[w])
            /\ \A r \in DOMAIN fingerprints' : r.songID # song_id[w]]_vars

\* C4: a register_song with the (title, artist) of an already registered song fails
\* with the already-exists error and leaves total_songs() and the song rows unchanged,
\* whatever the external_ref values.
C4_DuplicateIsAlreadyExists ==
  [][\A w \in Workers :
       (Registers(w) /\ \E s \in songs : s.title = job'[w].title /\ s.artist = job'[w].artist)
         => /\ pc'[w] = "failed"
            /\ ret'[w] = "AlreadyExists"
            /\ total_songs(songs') = total_songs(songs)
            /\ songs' = songs]_vars

\* C5: uniqueness of external_ref is enforced only among non-empty values: a
\* register_song with an empty external_ref and a new dedup_key is never rejected
\* as already existing, however many songs with an empty external_ref are registered.
C5_EmptyRefNotUnique ==
  [][\A w \in Workers :
       (/\ Registers(w)
        /\ job'[w].yt_id = ""
        /\ \A s \in songs : s.key # generate_song_key(job'[w].title, job'[w].artist))
         => ret'[w] # "AlreadyExists"]_vars

C7_StoreIsIdempotentUpsert ==
  [][/\ \A r \in DOMAIN fingerprints' : fingerprints'[r] <= 1
     /\ \A w \in Workers :
          (pc[w] = "registered" /\ pc'[w] = "done"
             /\ BatchRows(JobFingerprints(w)) \subseteq DOMAIN fingerprints)
            => fingerprints' = fingerprints]_vars

\* C8: get_couples returns an entry for every requested address, holding exactly
\* the postings stored under it (none for an address without postings).
C8_GetCouplesCoversRequest ==
  [][(q_pc # "lookup" /\ q_pc' = "lookup")
       => /\ DOMAIN couples_map' = DOMAIN q_fingerprints'
          /\ \A a \in DOMAIN couples_map' :
               \A r \in DOMAIN fingerprints \cup { Posting(a, c) : c \in DOMAIN couples_map'[a] } :
                 r.address = a =>
                   CopiesIn([anchor_time_ms |-> r.anchorTimeMs, song_id |-> r.songID], couples_map'[a])
                     = CopiesIn(r, fingerprints)]_vars

\* C9: the list find_matches returns is in non-increasing order of score.
C9_SortedByScoreDescending ==
  \A i \in 1..(Len(match_list) - 1) : match_list[i].score >= match_list[i + 1].score

\* C9 witness: a returned list with two matches of different scores
C9_Witness ==
  /\ q_pc = "done"
  /\ Len(match_list) >= 2
  /\ match_list[1].score > match_list[2].score

\* C10: of two matches with equal score the one with the lower song_id comes first.
C10_TiesByLowerSongId ==
  \A i \in 1..(Len(match_list) - 1) :
    match_list[i].score = match_list[i + 1].score
      => match_list[i].song_id < match_list[i + 1].song_id

\* the couples a query got back, over all its addresses
ReturnedCouples == UNION { DOMAIN couples_map[a] : a \in DOMAIN couples_map }

\* the candidate songs of a query: the song ids of the couples it got back
Candidates == { c.song_id : c \in ReturnedCouples }

MatchIds == { match_list[i].song_id : i \in 1..Len(match_list) }

SetMin(S) == CHOOSE x \in S : \A y \in S : x <= y

\* the pairs {i, j}, i < j, of one song's accumulated pairs that are time-coherent
CoherentPairs(times) ==
  { p \in (1..Len(times)) \X (1..Len(times)) :
      /\ p[1] < p[2]
      /\ Abs(Abs(times[p[1]][1] - times[p[2]][1]) - Abs(times[p[1]][2] - times[p[2]][2])) < 100 }

\* C11: every match find_matches returns has score >= 1; a candidate that scores 0
\* is not in the result.
C11_NoZeroScoreMatch ==
  \A i \in 1..Len(match_list) : match_list[i].score >= 1

\* C12: a candidate whose song has no row at lookup time is dropped and the query
\* goes on: the result holds exactly one match per candidate whose song exists.
C12_AbsentSongDropped ==
  [][(q_pc = "lookup" /\ q_pc' = "done")
       => LET found == { id \in Candidates : HasRow(songs, id) } IN
          /\ { match_list'[i].song_id : i \in 1..Len(match_list') } = found
          /\ Len(match_list') = Cardinality(found)]_vars

\* C12 witness: a finished query that dropped a candidate and returned another
C12_Witness ==
  /\ q_pc = "done"
  /\ Len(match_list) >= 1
  /\ \E id \in Candidates : id \notin MatchIds

\* C13: the timestamp of every match is the least anchor_time_ms among the
\* postings of its song that get_couples returned for the query's addresses.
C13_TimestampIsMinAnchor ==
  \A i \in 1..Len(match_list) :
    match_list[i].timestamp =
      SetMin({ c.anchor_time_ms : c \in { x \in ReturnedCouples : x.song_id = match_list[i].song_id } })

\* C13 witness: a match whose song came back with postings at different anchor times
C13_Witness ==
  /\ q_pc = "done"
  /\ \E i \in 1..Len(match_list) :
       \E c, d \in ReturnedCouples :
         /\ c.song_id = match_list[i].song_id /\ d.song_id = match_list[i].song_id
         /\ c.anchor_time_ms < d.anchor_time_ms

\* C14: the score of a candidate is the number of unordered pairs {i, j} of its
\* accumulated (q_anchor_ms, db_anchor_ms) pairs with | |q_i - q_j| - |db_i - db_j| | < 100,
\* hence between 0 and k(k-1)/2 for k accumulated pairs; a match carries that score.
C14_ScoreCountsCoherentPairs ==
  q_pc \in {"lookup", "done"} =>
    LET m == matches_map(q_fingerprints, couples_map)
        scores == analyze_relative_timing(m)
    IN /\ \A id \in DOMAIN m :
            /\ scores[id] = Cardinality(CoherentPairs(m[id]))
            /\ 0 <= scores[id]
            /\ 2 * scores[id] <= Len(m[id]) * (Len(m[id]) - 1)
       /\ \A i \in 1..Len(match_list) : match_list[i].score = scores[match_list[i].song_id]

\* C14 witness: a candidate with some but not all of its pairs coherent
C14_Witness ==
  /\ q_pc = "lookup"
  /\ LET m == matches_map(q_fingerprints, couples_map) IN
       \E id \in DOMAIN m :
         /\ Cardinality(CoherentPairs(m[id])) >= 1
         /\ 2 * Cardinality(CoherentPairs(m[id])) < Len(m[id]) * (Len(m[id]) - 1)

\* C15: a query with the very samples of an ingested, still registered song whose
\* peaks give at least two addresses returns a match for that song with
\* score = k(k-1)/2 >= 1 for its k matched postings and with the smallest stored
\* anchor_time_ms of the song as timestamp.
C15_ExactClipMatches ==
  [][\A w \in Workers :
       (/\ q_pc = "lookup" /\ q_pc' = "done"
        /\ pc[w] = "done"
        /\ Row(song_id[w], job[w].title, job[w].artist, job[w].yt_id) \in songs
        /\ Cardinality(DOMAIN JobFingerprints(w)) >= 2
        /\ BatchRows(JobFingerprints(w)) \subseteq DOMAIN fingerprints
        /\ q_fingerprints = AnchorTimes(JobFingerprints(w))
        /\ couples_map = get_couples(dbType, fingerprints, DOMAIN q_fingerprints))
         => \E i \in 1..Len(match_list') :
              LET k == Len(matches_map(q_fingerprints, couples_map)[song_id[w]]) IN
              /\ match_list'[i].song_id = song_id[w]
              /\ match_list'[i].score >= 1
              /\ 2 * match_list'[i].score = k * (k - 1)
              /\ match_list'[i].timestamp =
                   SetMin({ r.anchorTimeMs : r \in { x \in DOMAIN fingerprints : x.songID = song_id[w] } })]_vars

\* bitwise and of two naturals
RECURSIVE BitAnd(_, _)
BitAnd(a, b) ==
  IF a = 0 \/ b = 0 THEN 0
  ELSE (IF a % 2 = 1 /\ b % 2 = 1 THEN 1 ELSE 0) + 2 * BitAnd(a \div 2, b \div 2)

\* a & b on u32
And(a, b) == [hi |-> BitAnd(a.hi, b.hi), lo |-> BitAnd(a.lo, b.lo)]

\* x >> n on a u32 (0 < n < 32)
Shr(x, n) ==
  IF n < 16
    THEN [hi |-> x.hi \div (2 ^ n),
          lo |-> (x.lo \div (2 ^ n)) + ((x.hi % (2 ^ n)) * (2 ^ (16 - n)))]
    ELSE [hi |-> 0, lo |-> x.hi \div (2 ^ (n - 16))]

FreqMask == U32((2 ^ MAX_FREQ_BITS) - 1)
DeltaMask == U32((2 ^ MAX_DELTA_BITS) - 1)

\* the three values create_address was called with
AnchorFreq == h_peaks[1].freq
TargetFreq == h_peaks[2].freq
DeltaMs == h_peaks[2].time - h_peaks[1].time

\* C16: for frequencies in [0, 511] and a delta in [0, 16383] ms the address is
\* anchor_freq * 2^23 + target_freq * 2^14 + delta_ms, decoding it by
\* (addr >> 23, (addr >> 14) & 0x1FF, addr & 0x3FFF) gives the three values back,
\* and (100, 200, 50) encodes to 842137650.
C16_AddressRoundTrip ==
  (/\ h_call = "create_address"
   /\ AnchorFreq \in 0..511 /\ TargetFreq \in 0..511 /\ DeltaMs \in 0..16383)
    => /\ h_address = [hi |-> (AnchorFreq * 128) + (TargetFreq \div 4),
                       lo |-> ((TargetFreq % 4) * 16384) + DeltaMs]
       /\ Shr(h_address, 23) = U32(AnchorFreq)
       /\ And(Shr(h_address, 14), U32(511)) = U32(TargetFreq)
       /\ And(h_address, U32(16383)) = U32(DeltaMs)
       /\ (AnchorFreq = 100 /\ TargetFreq = 200 /\ DeltaMs = 50) => h_address = U32(842137650)

\* C16 witness: the call create_address over (100, 200, 50) has returned 842137650
C16_Witness ==
  /\ h_call = "create_address"
  /\ AnchorFreq = 100 /\ TargetFreq = 200 /\ DeltaMs = 50
  /\ h_address = U32(842137650)

\* C17: for every peak pair each value is masked to its field before packing: the
\* address is ((anchor_freq & 0x1FF) << 23) | ((target_freq & 0x1FF) << 14) | (delta_ms & 0x3FFF).
C17_FieldsAreMasked ==
  h_call = "create_address" =>
    h_address = Or(Or(Shl(And(AsU32(AnchorFreq), FreqMask), 23),
                      Shl(And(AsU32(TargetFreq), FreqMask), 14)),
                   And(AsU32(DeltaMs), DeltaMask))

\* C18: fingerprint(P, sid) is empty when |P| <= 1, non-empty when |P| >= 2, has at
\* most 5*|P| - 15 entries when |P| > 5, and every entry carries song_id = sid.
C18_FingerprintSize ==
  h_call = "fingerprint" =>
    LET n == Len(h_peaks)
        size == Cardinality(DOMAIN h_fingerprints)
    IN /\ n <= 1 => size = 0
       /\ n >= 2 => size >= 1
       /\ n > 5 => size <= (5 * n) - 15
       /\ \A a \in DOMAIN h_fingerprints : h_fingerprints[a].song_id = h_song_id

\* C18 witness: more than 5 peaks whose pairs all have different addresses: the
\* bound 5*|P| - 15 is met
C18_Witness ==
  /\ h_call = "fingerprint"
  /\ Len(h_peaks) > 5
  /\ Cardinality(DOMAIN h_fingerprints) = (5 * Len(h_peaks)) - 15

\* C19: the number of dl_track worker threads that are past the semaphore
\* acquisition and at work never exceeds the number of CPU cores.
C19_WorkersBoundedByCores ==
  Cardinality({ t \in DlTracks : d_thread[t] = "working" }) <= NumCpus

\* C20: two ingests with distinct song_ids commute: whatever the interleaving of
\* their register_song and store_fingerprints calls, once both are done the songs
\* table holds both rows and the index holds every posting of both, once each.
C20_IngestsCommute ==
  \A w1, w2 \in Workers :
    (w1 # w2 /\ pc[w1] = "done" /\ pc[w2] = "done" /\ song_id[w1] # song_id[w2])
      => /\ songs = { Row(song_id[w], job[w].title, job[w].artist, job[w].yt_id) : w \in {w1, w2} }
         /\ DOMAIN fingerprints = BatchRows(JobFingerprints(w1)) \cup BatchRows(JobFingerprints(w2))
         /\ \A r \in DOMAIN fingerprints : fingerprints[r] = 1

\* C20 witness: two finished ingests with distinct song_ids that stored postings
\* under the same address with the same anchor_time_ms
C20_Witness ==
  \E w1, w2 \in Workers :
    /\ pc[w1] = "done" /\ pc[w2] = "done" /\ song_id[w1] # song_id[w2]
    /\ \E r1 \in BatchRows(JobFingerprints(w1)), r2 \in BatchRows(JobFingerprints(w2)) :
         r1.address = r2.address /\ r1.anchorTimeMs = r2.anchorTimeMs

\* the rows of a songs table that carry the dedup key of (title, artist)
RowsOfKey(tbl, title, artist) == { r \in tbl : r.key = generate_song_key(title, artist) }

\* C21: of two concurrent register_song calls with the same (title, artist) exactly
\* one returns a song_id and the other fails with the already-exists error, and the
\* songs table holds exactly one row of that dedup key afterwards.
C21_ConcurrentRegisterSerializes ==
  [][\A w1, w2 \in Workers :
       (/\ w1 # w2
        /\ pc[w1] = "registered"
        /\ Row(song_id[w1], job[w1].title, job[w1].artist, job[w1].yt_id) \in songs
        /\ Registers(w2)
        /\ job'[w2].title = job[w1].title /\ job'[w2].artist = job[w1].artist)
         => /\ pc'[w2] = "failed"
            /\ ret'[w2] = "AlreadyExists"
            /\ Cardinality(RowsOfKey(songs', job[w1].title, job[w1].artist)) = 1]_vars

\* the sum of x[lo], ..., x[hi - 1], indices counted from 0
RECURSIVE SumRange(_, _, _)
SumRange(x, lo, hi) == IF lo >= hi THEN 0 ELSE x[lo + 1] + SumRange(x, lo + 1, hi)

\* C22: downsample(x, R_in, R_out) with valid rates returns ceil(N / r) samples,
\* r = floor(R_in / R_out), N = |x|; output k is the arithmetic mean of the inputs
\* [k*r, min((k+1)*r, N)); so downsample(x, R, R) is x and 100 samples at rates
\* 100 -> 25 give 25 samples.
C22_DownsampleMeans ==
  (/\ p_call = "downsample"
   /\ p_in.original_sample_rate > 0
   /\ p_in.target_sample_rate > 0
   /\ p_in.target_sample_rate <= p_in.original_sample_rate)
    => LET x == p_in.input
           N == Len(x)
           r == p_in.original_sample_rate \div p_in.target_sample_rate
           out == p_out.out
       IN  /\ p_out.ok
           /\ Len(out) = (N + r - 1) \div r
           /\ \A k \in 0..(Len(out) - 1) :
                LET hi == Min((k + 1) * r, N)
                IN  /\ out[k + 1].n = hi - k * r
                    /\ out[k + 1].sum = SumRange(x, k * r, hi)
           /\ r = 1 => /\ Len(out) = N
                       /\ \A k \in 1..N : out[k].n = 1 /\ out[k].sum = x[k]
           /\ (N = 100 /\ r = 4) => Len(out) = 25
           /\ Len(out) = downsample_len(N, p_in.original_sample_rate,
                                        p_in.target_sample_rate).out

\* a call whose last chunk is shorter than the ratio
C22_Witness ==
  /\ p_call = "downsample"
  /\ p_out.ok
  /\ Len(p_in.input) = 3
  /\ p_in.original_sample_rate \div p_in.target_sample_rate = 2
  /\ Len(p_out.out) = 2
  /\ p_out.out[2].n = 1
  /\ p_out.out[2].sum = 3

\* C23: the low-pass filter keeps its state across calls on one instance: the
\* outputs of filter(a) followed by filter(b) are those of the single call
\* filter(a ++ b), only the first sample after construction being computed with
\* the previous output 0.
C23_FilterStateAcrossCalls ==
  f_alpha \in Alphas
    => LET single == filter(f_alpha, Rat(0, 1), f_in, 1).out
       IN  /\ Len(f_out) = Len(single)
           /\ \A k \in 1..Len(f_out) : RatEq(f_out[k], single[k])

\* the (anchor, target) index pairs fingerprint() visits in a sequence of n peaks
PairsOf(n) == { p \in (1..n) \X (1..n) : p[1] < p[2] /\ p[2] <= p[1] + TARGET_ZONE_SIZE }

\* pair p is generated before pair q, or is q
PairLeq(p, q) == p[1] < q[1] \/ (p[1] = q[1] /\ p[2] <= q[2])

\* C24: fingerprint keeps exactly one posting per address; when several (anchor,
\* target) pairs of the peak sequence give the same address, the anchor_time_ms kept
\* is that of the last such pair in generation order (anchors in sequence order,
\* each anchor's targets in sequence order); the batch handed to the store has one
\* row per address.
C24_LastPairWins ==
  h_call = "fingerprint" =>
    LET pairs == PairsOf(Len(h_peaks))
        addr(p) == create_address(h_peaks[p[1]], h_peaks[p[2]])
    IN  /\ DOMAIN h_fingerprints = { addr(p) : p \in pairs }
        /\ \A a \in DOMAIN h_fingerprints :
             \E p \in pairs :
               /\ addr(p) = a
               /\ \A q \in pairs : addr(q) = a => PairLeq(q, p)
               /\ h_fingerprints[a].anchor_time_ms = h_peaks[p[1]].time
        /\ Cardinality(BatchRows(h_fingerprints)) = Cardinality(DOMAIN h_fingerprints)
        /\ \A r1, r2 \in BatchRows(h_fingerprints) :
             (r1.address = r2.address /\ r1.songID = r2.songID) => r1 = r2

\* two pairs with different anchors give one address, and the later anchor's time stays
C24_Witness ==
  /\ h_call = "fingerprint"
  /\ \E p, q \in PairsOf(Len(h_peaks)) :
       /\ p[1] < q[1]
       /\ h_peaks[p[1]].time < h_peaks[q[1]].time
       /\ create_address(h_peaks[p[1]], h_peaks[p[2]]) = create_address(h_peaks[q[1]], h_peaks[q[2]])
       /\ \A r \in PairsOf(Len(h_peaks)) :
            create_address(h_peaks[r[1]], h_peaks[r[2]]) = create_address(h_peaks[q[1]], h_peaks[q[2]])
              => PairLeq(r, q)
       /\ h_fingerprints[create_address(h_peaks[q[1]], h_peaks[q[2]])].anchor_time_ms
            = h_peaks[q[1]].time

\* C25: extract_peaks returns peaks in chronological order: peak times never
\* decrease along the returned sequence, across windows and across the bands of a
\* window, so the time difference of every (anchor, later target) pair is >= 0.
C25_PeaksChronological ==
  p_call = "extract_peaks" =>
    LET peaks == p_out.out
    IN  /\ \A k \in 1..(Len(peaks) - 1) : peaks[k].time <= peaks[k + 1].time
        /\ \A p \in PairsOf(Len(peaks)) : peaks[p[2]].time - peaks[p[1]].time >= 0

\* peaks of two bands of the first window, then a peak of the second window
C25_Witness ==
  /\ p_call = "extract_peaks"
  /\ Len(p_in.spectrogram) = 2
  /\ Len(p_out.out) = 3
  /\ p_out.out[1].time < p_out.out[2].time
  /\ p_out.out[2].time < FREQ_BIN_SIZE
  /\ p_out.out[3].time >= FREQ_BIN_SIZE

\* the peaks extract_peaks returned for window w (0-based) of its input
PeaksOfWindow(w) ==
  { k \in 1..Len(p_out.out) : p_out.out[k].time \div FREQ_BIN_SIZE = w }

\* the largest magnitude of a band of a window
BandTop(bin, band) ==
  LET mags == { Mag(bin, i) : i \in band[1]..(band[2] - 1) }
  IN  CHOOSE m \in mags : \A n \in mags : n <= m

NDown(num_samples, sample_rate) ==
  LET r == sample_rate \div (sample_rate \div DSP_RATIO)
  IN  (num_samples + r - 1) \div r

\* C27: for every input length spectrogram produces exactly floor(N_down / 992)
\* windows of length 1024; window i reads the samples [32*i, min(32*i + 1024,
\* N_down)) and zero-pads the rest, and its start 32*i never exceeds N_down, so no
\* window reads outside the downsampled samples.
C27_WindowsInBounds ==
  (p_call = "spectrogram" /\ p_in.sample_rate >= DSP_RATIO) =>
    LET n_down == NDown(p_in.num_samples, p_in.sample_rate)
        out == p_out.out
    IN  /\ p_out.ok
        /\ Len(out) = n_down \div 992
        /\ \A k \in 1..Len(out) :
             LET i == k - 1
             IN  /\ out[k].bin_len = 1024
                 /\ out[k].start = 32 * i
                 /\ out[k].end = Min(32 * i + 1024, n_down)
                 /\ out[k].start <= n_down
                 /\ out[k].start <= out[k].end
                 /\ out[k].end <= n_down
                 /\ out[k].pad = 1024 - (out[k].end - out[k].start)
                 /\ out[k].pad >= 0

\* two windows, the second from sample 32 on
C27_Witness ==
  /\ p_call = "spectrogram"
  /\ p_out.ok
  /\ Len(p_out.out) = 2
  /\ p_out.out[2].start = 32
  /\ p_out.out[2].end = 1056
  /\ p_out.out[1].pad = 0

\* C28: an empty spectrogram (zero windows) yields no peaks, no peaks yield an
\* empty fingerprint set, and a query with an empty fingerprint set returns an
\* empty match list without error.
C28_EmptyQueryMatchesNothing ==
  /\ extract_peaks(<< >>) = << >>
  /\ \A id \in IDs : fingerprint(extract_peaks(<< >>), id) = EmptyMap
  /\ (q_pc \in {"lookup", "done"} /\ q_fingerprints = EmptyMap) =>
       /\ couples_map = EmptyMap
       /\ match_list = << >>

\* a query without fingerprints has run to its end against an index that holds
\* songs and postings
C28_Witness ==
  /\ q_pc = "done"
  /\ q_fingerprints = EmptyMap
  /\ songs # {}
  /\ fingerprints # EmptyBag
  /\ match_list = << >>

\* the audio is so short that its spectrogram has no window
ZeroWindows(a) == a.sample_rate >= DSP_RATIO /\ NDown(a.num_samples, a.sample_rate) < 992

\* C29: an ingest whose audio is so short that the spectrogram has zero windows
\* (fewer than 992 downsampled samples) fails with a DSP error that aborts the
\* whole operation: it registers no song.
C29_ShortAudioRegistersNothing ==
  [][\A w \in Workers :
       (pc[w] = "idle" /\ pc'[w] # "idle" /\ ZeroWindows(audio'[w]))
         => /\ pc'[w] = "failed"
            /\ ret'[w] = "Dsp"
            /\ songs' = songs]_vars

\* C30: for every finite list of tracks dl_track eventually returns: once all
\* worker threads have finished, the summation of the channel completes and the
\* returned total is the number of workers that completed every step.
C30_DlTrackReturns == (d_main = "spawn") ~> (d_main = "returned")

=============================================================================
